---- MODULE Spec2Model ----
(***************************************************************************)
(* Model of the two React hooks of use-url-storage-state:                  *)
(*   useStorage          (src/src/use-storage/use-storage.test.tsx,        *)
(*                        lines 192-292: the hook's source)                *)
(*   useUrlStorageState  (src/src/use-url-storage-state/                   *)
(*                        use-url-storage-state.ts)                        *)
(* One component is modelled, using useStorage (StorageSpec), one          *)
(* useUrlStorageState call (UrlSpec), either of them (HooksSpec) or two    *)
(* useUrlStorageState calls (DuoSpec); RoundTripSpec applies the           *)
(* serialize/deserialize pairs as functions.  FirstUseSpec is the          *)
(* useStorage component with at most one key change, TabsSpec two tabs     *)
(* with a live useStorage component each on the same entry.                *)
(* A reaction of the component is a trigger (mount, setValue, key change,  *)
(* storage notification, navigation) followed by Render steps; one Render  *)
(* step is one render of the component together with every effect whose   *)
(* dependencies changed, in declaration order.  The component is settled   *)
(* when nothing it renders from has changed since its last render.         *)
(***************************************************************************)
EXTENDS Integers, Sequences, FiniteSets, TLC

VARIABLES
    hook,        \* "storage": a useStorage component; "url": a useUrlStorageState component;
                 \* "tabs": two tabs with a useStorage component; "pure": a round trip
    cfg,         \* the binding configuration the component passes to the hook
    keyProp,     \* useStorage: the key prop of the current parent render
    storage,     \* the storage backends: area -> key -> raw string or NULL
    events,      \* storage notifications dispatched to this window, not yet handled
    mounted,     \* the component is mounted
    value,       \* useStorage: the useState cell
    prevKeyRef,  \* useStorage: prevKeyRef.current
    listener,    \* useStorage: the subscribed storageChanged closure, or NoListener
    rendered,    \* what the last render saw (the values effects' deps compare to)
    history,     \* the window's session history: sequence of locations
    histIdx,     \* index of the current history entry
    extWrites,   \* how many writes other documents have made (observation only)
    ops,         \* storage calls made by the last reaction (observation only)
    last,        \* the last trigger, what it started from and the renders since (observation only)
    rt,          \* a serialize/deserialize round trip being computed
    second,      \* the component's second useUrlStorageState call, when it has one
    tabs         \* two tabs of the origin, each with a live useStorage component

vars == <<hook, cfg, keyProp, storage, events, mounted, value, prevKeyRef,
          listener, rendered, history, histIdx, extWrites, ops, last, rt,
          second, tabs>>

----------------------------------------------------------------------------
(* Bounds *)

MaxEvents == 1      \* storage notifications in flight
MaxHistory == 2     \* session-history entries
MaxWrites == 1      \* writes by other documents of the origin
MaxDuoHistory == 3  \* session-history entries of a component with two hook calls
MaxSets == 2        \* setValue calls made in two tabs together

----------------------------------------------------------------------------
(* JavaScript values.  A value is [t, v, ref]: its type, its content and,  *)
(* for objects, the identity of the object (0 for primitives), so that     *)
(* Object.is is record equality and deep equality ignores ref.             *)

NULL == "<null>"    \* getItem's null / an absent URL parameter / event.newValue null

Str(s) == [t |-> "str", v |-> s, ref |-> 0]
Num(s) == [t |-> "num", v |-> s, ref |-> 0]
Obj(s, r) == [t |-> "obj", v |-> s, ref |-> r]
Undefined == [t |-> "undef", v |-> "", ref |-> 0]

\* Object.is never finding two values the same (no bail-out of useState, no
\* unchanged effect dependency).
ObjectIs_NeverSame(a, b) == FALSE

\* Object.is: how useState and the effects' dependency arrays compare.
ObjectIs(a, b) == a = b
DeepEqual(a, b) == a.t = b.t /\ a.v = b.v

TextA == "{\"a\":1}"
TextD == "{\"d\":0}"

\* JSON.stringify on the values of the model: an object's content is kept as
\* its canonical JSON text, a string is quoted and the quotes in it escaped.
escape(s) ==
    CASE s = TextA -> "{\\\"a\\\":1}"
      [] s = TextD -> "{\\\"d\\\":0}"
      [] OTHER -> s

JSONstringify(x) ==
    CASE x.t = "str" -> "\"" \o escape(x.v) \o "\""
      [] x.t = "num" -> x.v
      [] x.t = "obj" -> x.v

\* The values JSON.parse can produce from the raw strings of the model.
JsonStrings == {"", "abc", "d", "1", "v2", "default", "fromUrl", "fromStorage",
                "untouched", TextA, TextD}
JsonUniverse == {Num("0"), Num("1"), Obj(TextA, 0), Obj(TextD, 0)}
                \cup {Str(s) : s \in JsonStrings}

\* JSON.parse: [ok |-> FALSE] when it throws; a parsed object is a new object
\* and gets the identity `fresh`.
JSONparse(raw, fresh) ==
    IF \E x \in JsonUniverse : JSONstringify(x) = raw
    THEN LET x == CHOOSE y \in JsonUniverse : JSONstringify(y) = raw
         IN  [ok |-> TRUE,
              val |-> IF x.t = "obj" THEN Obj(x.v, fresh) ELSE x]
    ELSE [ok |-> FALSE, val |-> Undefined]

\* JS truthiness of `string | null`
Truthy(s) == s # NULL /\ s # ""

----------------------------------------------------------------------------
(* The storage backends and the window's storage notifications *)

Areas == {"local", "session"}     \* window.localStorage, window.sessionStorage
StorageKeys == {"k1", "k2"}       \* keys a useStorage component is given
Paths == {"/", "/p2"}             \* location.pathname values
UrlKeys == {"key", "userSession"} \* logical keys useUrlStorageState calls are given
Prefixes == {"", "pre"}           \* prefix option ("" is the option left out)

\* `${prefix}_${key}` / `urlStorage_${location.pathname}_${key}`
storageKey(prefix, pathname, key) ==
    IF prefix # "" THEN prefix \o "_" \o key
    ELSE "urlStorage_" \o pathname \o "_" \o key

DerivedKeys == {storageKey(pf, pa, k) : pf \in Prefixes, pa \in Paths, k \in UrlKeys}
AllKeys == StorageKeys \cup DerivedKeys

getItem(st, area, k) == st[area][k]
setItem(st, area, k, raw) == [st EXCEPT ![area][k] = raw]
removeItem(st, area, k) == [st EXCEPT ![area][k] = NULL]

EmptyStorage == [a \in Areas |-> [k \in AllKeys |-> NULL]]

NoEvent == [area |-> "", key |-> "", newValue |-> NULL]
NoRoundTrip == [pair |-> "", input |-> Undefined, raw |-> NULL,
                out |-> [ok |-> FALSE, val |-> Undefined], pc |-> "idle"]
NoListener == [on |-> FALSE, key |-> "", value |-> Undefined, count |-> 0]

----------------------------------------------------------------------------
(* useStorage *)

\* serialize option: JSON.stringify (the default), an identity function on
\* strings, or useUrlStorageState's serializeState.
serializeState(x) == IF x.t = "str" THEN x.v ELSE JSONstringify(x)

Serialize(name, x) ==
    CASE name = "JSON.stringify" -> JSONstringify(x)
      [] name = "identity" -> x.v
      [] name = "serializeState" -> serializeState(x)

\* deserialize option: JSON.parse (the default) or an identity function.
Deserialize(name, raw, fresh) ==
    CASE name = "JSON.parse" -> JSONparse(raw, fresh)
      [] name = "identity" -> [ok |-> TRUE, val |-> Str(raw)]

\* An object identity no live value has.
FreshRef(used) == CHOOSE n \in 2..(Cardinality(used) + 2) :
                     /\ n \notin used
                     /\ \A m \in 2..(n - 1) : m \in used

\* getDefaultValue: a producer is called (and returns a new object each
\* time), anything else is returned as it is.
getDefaultValue(dflt, fresh) ==
    IF dflt.producer /\ dflt.val.t = "obj" THEN Obj(dflt.val.v, fresh)
    ELSE dflt.val

\* forceInit option: the set of raw strings it returns true for (never: {}).
forceInit(p, raw) == raw \in p.force

\* initFromStorage with the forceInit test left out.
initFromStorage_ForceInitSkipped(p, storedValue, st, fresh) ==
    IF Truthy(storedValue)
    THEN LET d == Deserialize(p.deserialize, storedValue, fresh)
         IN  IF d.ok
             THEN [val |-> d.val, storage |-> st, ops |-> <<>>]
             ELSE [val |-> getDefaultValue(p.dflt, fresh),
                   storage |-> removeItem(st, p.area, p.key),
                   ops |-> << <<"removeItem", p.area, p.key>> >>]
    ELSE [val |-> getDefaultValue(p.dflt, fresh), storage |-> st, ops |-> <<>>]

\* initFromStorage taking an empty stored string for an entry.
initFromStorage_EmptyRead(p, storedValue, st, fresh) ==
    IF storedValue # NULL /\ ~forceInit(p, storedValue)
    THEN LET d == Deserialize(p.deserialize, storedValue, fresh)
         IN  IF d.ok
             THEN [val |-> d.val, storage |-> st, ops |-> <<>>]
             ELSE [val |-> getDefaultValue(p.dflt, fresh),
                   storage |-> removeItem(st, p.area, p.key),
                   ops |-> << <<"removeItem", p.area, p.key>> >>]
    ELSE [val |-> getDefaultValue(p.dflt, fresh), storage |-> st, ops |-> <<>>]

\* initFromStorage(storedValue): the value, the storage after it and the
\* storage calls it made.
initFromStorage(p, storedValue, st, fresh) ==
    IF Truthy(storedValue) /\ ~forceInit(p, storedValue)
    THEN LET d == Deserialize(p.deserialize, storedValue, fresh)
         IN  IF d.ok
             THEN [val |-> d.val, storage |-> st, ops |-> <<>>]
             ELSE [val |-> getDefaultValue(p.dflt, fresh),
                   storage |-> removeItem(st, p.area, p.key),
                   ops |-> << <<"removeItem", p.area, p.key>> >>]
    ELSE [val |-> getDefaultValue(p.dflt, fresh), storage |-> st, ops |-> <<>>]

\* The commit effect with the recording of the key in prevKeyRef left out.
commitEffect_PrevKeyNotRecorded(p, w) ==
    LET removes == w.prevKeyRef # p.key
        st1 == IF removes THEN removeItem(w.storage, p.area, w.prevKeyRef)
               ELSE w.storage
        raw == Serialize(p.serialize, w.value)
    IN  [w EXCEPT !.storage = setItem(st1, p.area, p.key, raw),
                  !.ops = w.ops
                          \o (IF removes
                              THEN << <<"removeItem", p.area, w.prevKeyRef>> >>
                              ELSE <<>>)
                          \o << <<"setItem", p.area, p.key>> >>]

\* The commit effect with the removal of the previous key's entry left out.
commitEffect_OldKeyKept(p, w) ==
    [w EXCEPT !.storage = setItem(w.storage, p.area, p.key,
                                  Serialize(p.serialize, w.value)),
              !.prevKeyRef = p.key,
              !.ops = w.ops \o << <<"setItem", p.area, p.key>> >>]

\* The commit effect (deps [key, value, serialize, storage]).
commitEffect(p, w) ==
    LET removes == w.prevKeyRef # p.key
        st1 == IF removes THEN removeItem(w.storage, p.area, w.prevKeyRef)
               ELSE w.storage
        raw == Serialize(p.serialize, w.value)
    IN  [w EXCEPT !.storage = setItem(st1, p.area, p.key, raw),
                  !.prevKeyRef = p.key,
                  !.ops = w.ops
                          \o (IF removes
                              THEN << <<"removeItem", p.area, w.prevKeyRef>> >>
                              ELSE <<>>)
                          \o << <<"setItem", p.area, p.key>> >>]

\* The handlers left on window after an effect's cleanup has removed its own.
cleanup(l) == l.count - (IF l.on THEN 1 ELSE 0)

\* The live-sync effect without the cleanup of the previous run.
liveEffect_CleanupSkipped(p, w) ==
    [w EXCEPT !.listener = IF p.live
                           THEN [on |-> TRUE, key |-> p.key, value |-> w.value,
                                 count |-> w.listener.count + 1]
                           ELSE [NoListener EXCEPT !.count = w.listener.count]]

\* The live-sync effect (deps [defaultValue, fromStorage, key, live,
\* serialize, value]): its cleanup removes the previous listener, then the
\* listener of this render is added when live.  `count` is the number of
\* storageChanged handlers subscribed on window for the instance.
liveEffect(p, w) ==
    [w EXCEPT !.listener = IF p.live
                           THEN [on |-> TRUE, key |-> p.key, value |-> w.value,
                                 count |-> cleanup(w.listener) + 1]
                           ELSE [NoListener EXCEPT !.count = cleanup(w.listener)]]

\* storageChanged's early return without the comparison to serialize(value).
storageChangedIgnores_EchoHandled(p, l, event) ==
    \/ event.area # "local"
    \/ event.key # l.key

\* storageChanged's early return.
storageChangedIgnores(p, l, event) ==
    \/ event.area # "local"
    \/ event.key # l.key
    \/ event.newValue = Serialize(p.serialize, l.value)

----------------------------------------------------------------------------
(* The location and the session history (react-router over window.history) *)

\* kebabize, on the keys of the model
kebabize(key) ==
    CASE key = "key" -> "key"
      [] key = "userSession" -> "user-session"

ParamNames == {kebabize(k) : k \in UrlKeys} \cup {"existing"}
EmptySearch == [n \in ParamNames |-> NULL]

\* new URLSearchParams(search).get(name) / .set(name, v)
searchGet(search, name) == search[name]
searchSet(search, name, v) == [search EXCEPT ![name] = v]

\* navigate({search}, {replace: true}): the current entry is replaced.
navigateReplace(w, loc) == [w EXCEPT !.history[w.histIdx] = loc]

\* navigate({search}): a new entry is pushed after the current one.
navigatePush(w, loc) ==
    [w EXCEPT !.history = Append(SubSeq(w.history, 1, w.histIdx), loc),
              !.histIdx = w.histIdx + 1]

----------------------------------------------------------------------------
(* useUrlStorageState *)

\* The populate-URL effect writing the default instead of the storage value.
populateUrlEffect_WritesDefault(c, loc, storageState, w) ==
    LET keyParam == searchGet(loc.search, kebabize(c.key))
    IN  IF ~Truthy(keyParam)
        THEN navigateReplace(w, [path |-> loc.path,
                 search |-> searchSet(loc.search, kebabize(c.key),
                                      serializeState(c.dflt.val))])
        ELSE w

\* The populate-URL effect (deps [storageState, key, navigate, location.search]);
\* loc and storageState are those of the render the effect belongs to.
populateUrlEffect(c, loc, storageState, w) ==
    LET keyParam == searchGet(loc.search, kebabize(c.key))
    IN  IF ~Truthy(keyParam)
        THEN navigateReplace(w, [path |-> loc.path,
                 search |-> searchSet(loc.search, kebabize(c.key), storageState.v)])
        ELSE w

\* The populate-storage effect (deps [key, setStorageState, location.search]).
populateStorageEffect(c, loc, w) ==
    LET keyParam == searchGet(loc.search, kebabize(c.key))
    IN  IF ~Truthy(keyParam) THEN w
        ELSE [w EXCEPT !.value = Str(keyParam)]

\* The state memo: the value the hook returns for a render at loc.
state(c, loc, fresh) ==
    LET urlParam == searchGet(loc.search, kebabize(c.key))
    IN  IF ~Truthy(urlParam) THEN c.dflt.val
        ELSE LET parsed == JSONparse(urlParam, fresh)
             IN  IF parsed.ok THEN parsed.val ELSE Str(urlParam)

\* The props the component's useStorage call gets in a render at loc.
useStorageProps(h, c, kp, loc) ==
    IF h = "url"
    THEN [key |-> storageKey(c.prefix, loc.path, c.key),
          dflt |-> [producer |-> FALSE, val |-> Str(serializeState(c.dflt.val))],
          serialize |-> "serializeState",
          deserialize |-> "identity",
          area |-> c.area,
          live |-> FALSE,
          force |-> {}]
    ELSE [key |-> kp,
          dflt |-> c.dflt,
          serialize |-> c.serialize,
          deserialize |-> c.deserialize,
          area |-> c.area,
          live |-> c.live,
          force |-> c.force]

----------------------------------------------------------------------------
(* The component *)

NoRender == [key |-> "", value |-> Undefined, path |-> "", search |-> EmptySearch]

\* No second hook call: its configuration, its useStorage state (value,
\* prevKeyRef), what its last render saw, the instances whose setter the last
\* event handler called, and whether that handler is still running.
NoSecond == [on |-> FALSE, cfg |-> [key |-> ""], value |-> Undefined,
             prevKeyRef |-> NULL, rendered |-> NoRender, updated |-> {},
             inHandler |-> FALSE]

\* No second tab: per tab the useState cell, the value its last render saw
\* (the one its commit effect wrote and its storageChanged closes over) and
\* the storage notifications dispatched to its window; the setValue calls made.
NoTabs == [value |-> <<Undefined, Undefined>>,
           rendered |-> <<Undefined, Undefined>>,
           queue |-> << <<>>, <<>> >>,
           sets |-> 0]

World == [storage |-> storage, value |-> value, prevKeyRef |-> prevKeyRef,
          listener |-> listener, history |-> history, histIdx |-> histIdx,
          ops |-> ops]

CurProps == useStorageProps(hook, cfg, keyProp, history[histIdx])

LiveRefs == {value.ref, rendered.value.ref, listener.value.ref, 1}
Fresh == FreshRef(LiveRefs)

\* The component has rendered everything it renders from.
Settled ==
    mounted => /\ ObjectIs(value, rendered.value)
               /\ CurProps.key = rendered.key
               /\ history[histIdx].path = rendered.path
               /\ history[histIdx].search = rendered.search

\* renderPass with every effect run on every render, changed dependencies or not.
renderPass_EffectsAlwaysRun(h, c, p, loc, sv, r, first, w) ==
    LET keyCh == TRUE
        valCh == TRUE
        searchCh == TRUE
        pathCh == TRUE
        w1 == IF keyCh \/ valCh THEN commitEffect(p, w) ELSE w
        w2 == IF keyCh \/ valCh THEN liveEffect(p, w1) ELSE w1
        w3 == IF h = "url" /\ (valCh \/ searchCh \/ pathCh)
              THEN populateUrlEffect(c, loc, sv, w2) ELSE w2
        w4 == IF h = "url" /\ searchCh
              THEN populateStorageEffect(c, loc, w3) ELSE w3
    IN  w4

\* One render at the current location with state sv, and its effects; r is
\* what the previous render saw and first says there was none.
renderPass(h, c, p, loc, sv, r, first, w) ==
    LET keyCh == first \/ p.key # r.key
        valCh == first \/ ~ObjectIs(sv, r.value)
        searchCh == first \/ loc.search # r.search
        pathCh == first \/ loc.path # r.path
        w1 == IF keyCh \/ valCh THEN commitEffect(p, w) ELSE w
        w2 == IF keyCh \/ valCh THEN liveEffect(p, w1) ELSE w1
        w3 == IF h = "url" /\ (valCh \/ searchCh \/ pathCh)
              THEN populateUrlEffect(c, loc, sv, w2) ELSE w2
        w4 == IF h = "url" /\ searchCh
              THEN populateStorageEffect(c, loc, w3) ELSE w3
    IN  w4

Snapshot(p, loc, sv) ==
    [key |-> p.key, value |-> sv, path |-> loc.path, search |-> loc.search]

\* What a trigger started from.
Pre == [value |-> value,
        key |-> CurProps.key,
        raw |-> getItem(storage, CurProps.area, CurProps.key),
        store |-> storage[CurProps.area],
        histLen |-> Len(history),
        histIdx |-> histIdx,
        search |-> history[histIdx].search]

SetWorld(w) ==
    /\ storage' = w.storage
    /\ value' = w.value
    /\ prevKeyRef' = w.prevKeyRef
    /\ listener' = w.listener
    /\ history' = w.history
    /\ histIdx' = w.histIdx
    /\ ops' = w.ops

\* The component mounts: the first render (useState runs initFromStorage,
\* useRef keeps the key) and every effect.
Mount ==
    /\ ~mounted
    /\ LET p == CurProps
           loc == history[histIdx]
           init == initFromStorage(p, getItem(storage, p.area, p.key), storage, Fresh)
           w0 == [World EXCEPT !.storage = init.storage, !.value = init.val,
                               !.prevKeyRef = p.key, !.ops = init.ops]
       IN  /\ SetWorld(renderPass(hook, cfg, p, loc, init.val, NoRender, TRUE, w0))
           /\ rendered' = Snapshot(p, loc, init.val)
    /\ mounted' = TRUE
    /\ last' = [op |-> "mount", ev |-> NoEvent, arg |-> Undefined,
                accepted |-> FALSE, threw |-> FALSE, updater |-> "", renders |-> 0, pre |-> Pre]
    /\ UNCHANGED <<tabs, second, rt, extWrites, hook, cfg, keyProp, events>>

\* React re-renders the component after a state, prop or location change.
Render ==
    /\ mounted
    /\ ~Settled
    /\ LET p == CurProps
           loc == history[histIdx]
       IN  /\ SetWorld(renderPass(hook, cfg, p, loc, value, rendered, FALSE, World))
           /\ rendered' = Snapshot(p, loc, value)
    /\ last' = [last EXCEPT !.renders = @ + 1]
    /\ UNCHANGED <<tabs, second, rt, extWrites, hook, cfg, keyProp, events, mounted>>

Trigger(op, ev, arg, accepted) ==
    last' = [op |-> op, ev |-> ev, arg |-> arg, accepted |-> accepted,
             threw |-> FALSE, updater |-> "", renders |-> 0, pre |-> Pre]

\* The component unmounts: the live-sync effect's cleanup removes the listener.
Unmount ==
    /\ mounted
    /\ Settled
    /\ mounted' = FALSE
    /\ listener' = [NoListener EXCEPT !.count = cleanup(listener)]
    /\ value' = Undefined
    /\ prevKeyRef' = NULL
    /\ rendered' = NoRender
    /\ ops' = <<>>
    /\ Trigger("unmount", NoEvent, Undefined, FALSE)
    /\ UNCHANGED <<tabs, second, rt, extWrites, hook, cfg, keyProp, storage, events, history, histIdx>>

\* The parent re-renders the component with the same props at the same
\* location: React compares every effect's dependencies with the previous
\* render's and runs the effects whose dependencies changed.
ReRender ==
    /\ mounted
    /\ Settled
    /\ LET p == CurProps
           loc == history[histIdx]
           w0 == [World EXCEPT !.ops = <<>>]
       IN  /\ SetWorld(renderPass(hook, cfg, p, loc, value, rendered, FALSE, w0))
           /\ rendered' = Snapshot(p, loc, value)
    /\ Trigger("rerender", NoEvent, Undefined, FALSE)
    /\ UNCHANGED <<tabs, second, rt, extWrites, hook, cfg, keyProp, events, mounted>>

\* Raw strings other code of the origin writes, and values callers set.
RawStrings == {"", "abc", "1", TextA}

SettableValues ==
    IF cfg.serialize = "identity"
    THEN {Str("abc"), Str(""), Str("d")}
    ELSE {Num("1"), Obj(TextA, Fresh), value}

\* useStorage's setValue(v) (the useState setter).
SetValue(v) ==
    /\ hook = "storage"
    /\ mounted
    /\ Settled
    /\ value' = v
    /\ ops' = <<>>
    /\ Trigger("setValue", NoEvent, v, FALSE)
    /\ UNCHANGED <<tabs, second, rt, extWrites, hook, cfg, keyProp, storage, events, mounted, prevKeyRef,
                   listener, rendered, history, histIdx>>

\* The parent renders the useStorage component with another key.
SetKey(k) ==
    /\ hook = "storage"
    /\ mounted
    /\ Settled
    /\ k # keyProp
    /\ keyProp' = k
    /\ ops' = <<>>
    /\ Trigger("setKey", NoEvent, Undefined, FALSE)
    /\ UNCHANGED <<tabs, second, rt, extWrites, hook, cfg, storage, events, mounted, value, prevKeyRef,
                   listener, rendered, history, histIdx>>

\* Another document of the origin writes (nv a string) or removes (nv NULL)
\* an entry; the browser queues a storage notification for this window.
ExternalWrite(area, k, nv) ==
    /\ hook = "storage"
    /\ Settled
    /\ Len(events) < MaxEvents
    /\ extWrites < MaxWrites
    /\ getItem(storage, area, k) # nv
    /\ storage' = IF nv = NULL THEN removeItem(storage, area, k)
                  ELSE setItem(storage, area, k, nv)
    /\ events' = Append(events, [area |-> area, key |-> k, newValue |-> nv])
    /\ ops' = <<>>
    /\ Trigger("externalWrite", NoEvent, Undefined, FALSE)
    /\ extWrites' = extWrites + 1
    /\ UNCHANGED <<tabs, second, rt, hook, cfg, keyProp, mounted, value, prevKeyRef, listener,
                   rendered, history, histIdx>>

\* The window dispatches the oldest storage notification: storageChanged
\* runs when it is subscribed.
DispatchStorageEvent ==
    /\ hook = "storage"
    /\ Settled
    /\ events # <<>>
    /\ LET event == Head(events)
           p == CurProps
           handled == listener.on /\ ~storageChangedIgnores(p, listener, event)
           init == initFromStorage(p, event.newValue, storage, Fresh)
       IN  /\ events' = Tail(events)
           /\ IF handled
              THEN /\ value' = init.val
                   /\ storage' = init.storage
                   /\ ops' = init.ops
              ELSE /\ UNCHANGED <<value, storage>>
                   /\ ops' = <<>>
           /\ Trigger("storageEvent", event, Undefined, handled)
    /\ UNCHANGED <<tabs, second, rt, extWrites, hook, cfg, keyProp, mounted, prevKeyRef, listener, rendered,
                   history, histIdx>>

\* Values callers of useUrlStorageState's setter pass.
UrlSettableValues == {Str("v2"), Str(""), Obj(TextA, Fresh)}

\* useUrlStorageState's updateState(newValue) with a plain value; it uses the
\* location of the render it was created in.
UpdateState(v) ==
    /\ hook = "url"
    /\ mounted
    /\ Settled
    /\ histIdx < MaxHistory
    /\ LET loc == [path |-> rendered.path,
                   search |-> searchSet(rendered.search, kebabize(cfg.key),
                                        serializeState(v))]
           w == navigatePush(World, loc)
       IN  /\ history' = w.history
           /\ histIdx' = w.histIdx
    /\ ops' = <<>>
    /\ Trigger("updateState", NoEvent, v, FALSE)
    /\ UNCHANGED <<tabs, second, rt, extWrites, hook, cfg, keyProp, storage, events, mounted, value,
                   prevKeyRef, listener, rendered>>

\* Updater functions callers pass: prev => prev and prev => ({a: 1}).
Updaters == {"same", "toA"}
applyUpdater(f, prev, fresh) ==
    CASE f = "same" -> prev
      [] f = "toA" -> Obj(TextA, fresh)

\* useUrlStorageState's updateState(f) with an updater function: f gets
\* JSON.parse(storageState) of the render the callback was created in; when
\* JSON.parse throws, the exception leaves updateState before any navigation.
UpdateStateWith(f) ==
    /\ hook = "url"
    /\ mounted
    /\ Settled
    /\ histIdx < MaxHistory
    /\ LET prev == JSONparse(rendered.value.v, Fresh)
           newValueToSet == applyUpdater(f, prev.val, Fresh)
           loc == [path |-> rendered.path,
                   search |-> searchSet(rendered.search, kebabize(cfg.key),
                                        serializeState(newValueToSet))]
           w == navigatePush(World, loc)
       IN  IF prev.ok
           THEN /\ history' = w.history
                /\ histIdx' = w.histIdx
                /\ last' = [op |-> "updateStateWith", ev |-> NoEvent,
                            arg |-> newValueToSet, accepted |-> FALSE,
                            threw |-> FALSE, updater |-> f, renders |-> 0, pre |-> Pre]
           ELSE /\ UNCHANGED <<history, histIdx>>
                /\ last' = [op |-> "updateStateWith", ev |-> NoEvent,
                            arg |-> Undefined, accepted |-> FALSE,
                            threw |-> TRUE, updater |-> f, renders |-> 0, pre |-> Pre]
    /\ ops' = <<>>
    /\ UNCHANGED <<tabs, second, rt, extWrites, hook, cfg, keyProp, storage, events, mounted, value,
                   prevKeyRef, listener, rendered>>

\* The user follows a link to loc (a push navigation made by the application).
LinkNavigate(loc) ==
    /\ hook = "url"
    /\ Settled
    /\ histIdx < MaxHistory
    /\ loc # history[histIdx]
    /\ LET w == navigatePush(World, loc)
       IN  /\ history' = w.history
           /\ histIdx' = w.histIdx
    /\ ops' = <<>>
    /\ Trigger("navigate", NoEvent, Undefined, FALSE)
    /\ UNCHANGED <<tabs, second, rt, extWrites, hook, cfg, keyProp, storage, events, mounted, value,
                   prevKeyRef, listener, rendered>>

\* The user goes back one history entry.
Back ==
    /\ hook = "url"
    /\ Settled
    /\ histIdx > 1
    /\ histIdx' = histIdx - 1
    /\ ops' = <<>>
    /\ Trigger("back", NoEvent, Undefined, FALSE)
    /\ UNCHANGED <<tabs, second, rt, extWrites, hook, cfg, keyProp, storage, events, mounted, value,
                   prevKeyRef, listener, rendered, history>>

----------------------------------------------------------------------------
(* A component calling useUrlStorageState twice, with two keys.  The first *)
(* call's state is in value/prevKeyRef/rendered, the second call's in      *)
(* `second`; storage, location and history are the window's.               *)

SecondProps(loc) == useStorageProps("url", second.cfg, "", loc)

\* The hooks' state is all rendered.
DuoSettled ==
    mounted => /\ Settled
               /\ ObjectIs(second.value, second.rendered.value)
               /\ SecondProps(history[histIdx]).key = second.rendered.key

\* One render of the component: the effects of the first call, then those of
\* the second call, all created in the same render and so seeing the same
\* location.
duoRenderPass(loc, sv1, r1, sv2, r2, first, w) ==
    LET w1 == renderPass("url", cfg, CurProps, loc, sv1, r1, first, w)
        w2 == renderPass("url", second.cfg, SecondProps(loc), loc, sv2, r2, first,
                         [w1 EXCEPT !.value = sv2,
                                    !.prevKeyRef = IF first THEN SecondProps(loc).key
                                                   ELSE second.prevKeyRef,
                                    !.listener = NoListener])
    IN  [first |-> w1, second |-> w2]

SetDuoWorld(d, loc, sv1, sv2) ==
    /\ storage' = d.second.storage
    /\ history' = d.second.history
    /\ histIdx' = d.second.histIdx
    /\ ops' = d.second.ops
    /\ value' = d.first.value
    /\ prevKeyRef' = d.first.prevKeyRef
    /\ listener' = d.first.listener
    /\ rendered' = Snapshot(CurProps, loc, sv1)
    /\ second' = [second EXCEPT !.value = d.second.value,
                                !.prevKeyRef = d.second.prevKeyRef,
                                !.rendered = Snapshot(SecondProps(loc), loc, sv2),
                                !.inHandler = FALSE]

\* The component mounts: both useState initialisers run in the first render,
\* then every effect.
DuoMount ==
    /\ second.on
    /\ ~mounted
    /\ LET loc == history[histIdx]
           p1 == CurProps
           p2 == SecondProps(loc)
           init1 == initFromStorage(p1, getItem(storage, p1.area, p1.key), storage, Fresh)
           init2 == initFromStorage(p2, getItem(init1.storage, p2.area, p2.key),
                                    init1.storage, Fresh)
           w0 == [World EXCEPT !.storage = init2.storage, !.value = init1.val,
                               !.prevKeyRef = p1.key,
                               !.ops = init1.ops \o init2.ops]
       IN  SetDuoWorld(duoRenderPass(loc, init1.val, NoRender, init2.val, NoRender,
                                     TRUE, w0),
                       loc, init1.val, init2.val)
    /\ mounted' = TRUE
    /\ Trigger("mount", NoEvent, Undefined, FALSE)
    /\ UNCHANGED <<tabs, rt, extWrites, hook, cfg, keyProp, events>>

\* React re-renders the component after a state or location change.
DuoRender ==
    /\ second.on
    /\ mounted
    /\ ~DuoSettled
    /\ LET loc == history[histIdx]
       IN  SetDuoWorld(duoRenderPass(loc, value, rendered, second.value,
                                     second.rendered, FALSE, World),
                       loc, value, second.value)
    /\ last' = [last EXCEPT !.renders = @ + 1]
    /\ UNCHANGED <<tabs, rt, extWrites, hook, cfg, keyProp, events, mounted>>

\* Values the component's event handlers set.
DuoSettableValues == {Str("v2"), Obj(TextA, 1)}

\* An event handler calls the setter of instance i (1: first call, 2: second
\* call).  A handler may call both setters before React renders again; each
\* is the updateState of the last render and uses that render's location.
DuoUpdateState(i, v) ==
    /\ second.on
    /\ mounted
    /\ IF second.inHandler THEN i \notin second.updated ELSE DuoSettled
    /\ histIdx < MaxDuoHistory
    /\ LET key == IF i = 1 THEN cfg.key ELSE second.cfg.key
           loc == [path |-> rendered.path,
                   search |-> searchSet(rendered.search, kebabize(key),
                                        serializeState(v))]
           w == navigatePush(World, loc)
       IN  /\ history' = w.history
           /\ histIdx' = w.histIdx
    /\ second' = [second EXCEPT !.updated = IF second.inHandler
                                            THEN second.updated \cup {i}
                                            ELSE {i},
                                !.inHandler = TRUE]
    /\ ops' = <<>>
    /\ Trigger("updateState", NoEvent, v, FALSE)
    /\ UNCHANGED <<tabs, rt, extWrites, hook, cfg, keyProp, storage, events, mounted, value,
                   prevKeyRef, listener, rendered>>

----------------------------------------------------------------------------
(* Two tabs of one origin, each rendering a useStorage component with      *)
(* live: true on the same key of window.localStorage.  A tab's setItem or  *)
(* removeItem that changes the entry dispatches a storage notification to  *)
(* the other tab.                                                          *)

Tabs == {1, 2}
OtherTab(t) == IF t = 1 THEN 2 ELSE 1

TabSettled(t) == ObjectIs(tabs.value[t], tabs.rendered[t])

TabRefs == {tabs.value[t].ref : t \in Tabs} \cup {tabs.rendered[t].ref : t \in Tabs}
             \cup {1}
TabFresh == FreshRef(TabRefs)

\* The notification queues after tab t changed storage from st0 to st1: the
\* other tab is notified when the entry at the key is no longer the same.
notifyOther(queue, t, p, st0, st1) ==
    IF getItem(st1, p.area, p.key) # getItem(st0, p.area, p.key)
    THEN [queue EXCEPT ![OtherTab(t)] =
              Append(@, [area |-> p.area, key |-> p.key,
                         newValue |-> getItem(st1, p.area, p.key)])]
    ELSE queue

TabSettableValues ==
    IF cfg.serialize = "identity"
    THEN {Str("abc"), Str("1")}
    ELSE {Num("1"), Obj(TextA, TabFresh)}

\* setValue(v) in tab t.
TabSetValue(t, v) ==
    /\ hook = "tabs"
    /\ TabSettled(t)
    /\ tabs.sets < MaxSets
    /\ tabs' = [tabs EXCEPT !.value[t] = v, !.sets = @ + 1]
    /\ UNCHANGED <<hook, cfg, keyProp, storage, events, mounted, value, prevKeyRef,
                   listener, rendered, history, histIdx, extWrites, ops, last, rt,
                   second>>

\* Tab t renders after its value changed: the commit effect writes the value
\* and the live effect subscribes a storageChanged closing over it.
TabRender(t) ==
    /\ hook = "tabs"
    /\ ~TabSettled(t)
    /\ LET p == CurProps
           w == commitEffect(p, [World EXCEPT !.value = tabs.value[t],
                                              !.prevKeyRef = p.key,
                                              !.ops = <<>>])
       IN  /\ storage' = w.storage
           /\ tabs' = [tabs EXCEPT
                         !.rendered[t] = tabs.value[t],
                         !.queue = notifyOther(@, t, p, storage, w.storage)]
    /\ UNCHANGED <<hook, cfg, keyProp, events, mounted, value, prevKeyRef,
                   listener, rendered, history, histIdx, extWrites, ops, last, rt,
                   second>>

\* The window of tab t dispatches its oldest storage notification to the
\* storageChanged of the tab's last render.
TabDispatch(t) ==
    /\ hook = "tabs"
    /\ TabSettled(t)
    /\ tabs.queue[t] # <<>>
    /\ LET p == CurProps
           event == Head(tabs.queue[t])
           l == [on |-> TRUE, key |-> p.key, value |-> tabs.rendered[t], count |-> 1]
           handled == ~storageChangedIgnores(p, l, event)
           init == initFromStorage(p, event.newValue, storage, TabFresh)
           st1 == IF handled THEN init.storage ELSE storage
       IN  /\ storage' = st1
           /\ tabs' = [tabs EXCEPT
                         !.value[t] = IF handled THEN init.val ELSE @,
                         !.queue = notifyOther([@ EXCEPT ![t] = Tail(@)],
                                               t, p, storage, st1)]
    /\ UNCHANGED <<hook, cfg, keyProp, events, mounted, value, prevKeyRef,
                   listener, rendered, history, histIdx, extWrites, ops, last, rt,
                   second>>

----------------------------------------------------------------------------
(* Specifications *)

JsonDefaults == {[producer |-> FALSE, val |-> Obj(TextD, 1)],
                 [producer |-> TRUE, val |-> Obj(TextD, 1)]}

StorageConfigs ==
    {[area |-> a, live |-> l, serialize |-> "JSON.stringify",
      deserialize |-> "JSON.parse", force |-> f, dflt |-> d,
      key |-> "key", prefix |-> ""] :
        a \in Areas, l \in BOOLEAN, f \in {{}, {"1"}}, d \in JsonDefaults}
    \cup
    {[area |-> a, live |-> l, serialize |-> "identity",
      deserialize |-> "identity", force |-> {},
      dflt |-> [producer |-> FALSE, val |-> Str("d")],
      key |-> "key", prefix |-> ""] :
        a \in Areas, l \in BOOLEAN}

UrlDefaults == {Str("default"), Str("1"), Str(""), Obj(TextD, 1)}

UrlConfigs ==
    {[area |-> a, live |-> FALSE, serialize |-> "serializeState",
      deserialize |-> "identity", force |-> {},
      dflt |-> [producer |-> FALSE, val |-> d],
      key |-> "key", prefix |-> pf] :
        a \in Areas, pf \in Prefixes, d \in UrlDefaults}

UrlRawStrings == {"", "fromStorage", "1", TextA}
UrlParamStrings == {"", "fromUrl", TextA}
LinkTargets == {[path |-> pa, search |-> [EmptySearch EXCEPT !["key"] = v]] :
                   pa \in Paths, v \in {NULL, "fromUrl"}}

InitCommon ==
    /\ events = <<>>
    /\ mounted = FALSE
    /\ value = Undefined
    /\ prevKeyRef = NULL
    /\ listener = NoListener
    /\ rendered = NoRender
    /\ histIdx = 1
    /\ extWrites = 0
    /\ ops = <<>>
    /\ last = [op |-> "init", ev |-> NoEvent, arg |-> Undefined,
               accepted |-> FALSE, threw |-> FALSE, updater |-> "",
               renders |-> 0,
               pre |-> [value |-> Undefined, key |-> "", raw |-> NULL,
                        store |-> EmptyStorage["local"],
                        histLen |-> 1, histIdx |-> 1,
                        search |-> EmptySearch]]

\* A useStorage component about to mount; the configured backend may hold
\* an entry at its key already.
StorageInit ==
    /\ hook = "storage"
    /\ cfg \in StorageConfigs
    /\ keyProp = "k1"
    /\ \E raw \in RawStrings \cup {NULL} :
          storage = setItem(EmptyStorage, cfg.area, "k1", raw)
    /\ history = << [path |-> "/", search |-> EmptySearch] >>
    /\ InitCommon
    /\ tabs = NoTabs
    /\ rt = NoRoundTrip
    /\ second = NoSecond

StorageNext ==
    \/ Mount
    \/ Render
    \/ ReRender
    \/ Unmount
    \/ \E v \in SettableValues : SetValue(v)
    \/ \E k \in StorageKeys : SetKey(k)
    \/ \E a \in Areas, k \in StorageKeys, nv \in RawStrings \cup {NULL} :
          ExternalWrite(a, k, nv)
    \/ DispatchStorageEvent

StorageSpec == StorageInit /\ [][StorageNext]_vars

\* A useUrlStorageState component about to mount at "/"; the backend may
\* hold an entry at the derived key and the URL may carry parameters.
UrlInit ==
    /\ hook = "url"
    /\ cfg \in UrlConfigs
    /\ keyProp = ""
    /\ \E raw \in UrlRawStrings \cup {NULL} :
          storage = setItem(EmptyStorage, cfg.area,
                            storageKey(cfg.prefix, "/", cfg.key), raw)
    /\ \E kv \in UrlParamStrings \cup {NULL} :
          history = << [path |-> "/",
                        search |-> [EmptySearch EXCEPT !["key"] = kv,
                                                       !["existing"] = "untouched"]] >>
    /\ InitCommon
    /\ tabs = NoTabs
    /\ rt = NoRoundTrip
    /\ second = NoSecond

UrlNext ==
    \/ Mount
    \/ Render
    \/ ReRender
    \/ Unmount
    \/ \E v \in UrlSettableValues : UpdateState(v)
    \/ \E f \in Updaters : UpdateStateWith(f)
    \/ \E loc \in LinkTargets : LinkNavigate(loc)
    \/ Back

UrlSpec == UrlInit /\ [][UrlNext]_vars

\* The two serialize/deserialize pairs as pure functions: useStorage's
\* defaults (JSON.stringify, JSON.parse) and useUrlStorageState's
\* (serializeState, the state memo's reading of the URL parameter).
RoundTripPairs == {"useStorage", "useUrlStorageState"}
RoundTripValues == {Str(s) : s \in JsonStrings}
                   \cup {Num("0"), Num("1"), Obj(TextA, 1), Obj(TextD, 1)}

RoundTripInit ==
    /\ hook = "pure"
    /\ cfg \in {c \in UrlConfigs : c.area = "local" /\ c.prefix = ""}
    /\ keyProp = ""
    /\ storage = EmptyStorage
    /\ history = << [path |-> "/", search |-> EmptySearch] >>
    /\ InitCommon
    /\ tabs = NoTabs
    /\ second = NoSecond
    /\ \E pair \in RoundTripPairs, V \in RoundTripValues :
          rt = [pair |-> pair, input |-> V, raw |-> NULL,
                out |-> [ok |-> FALSE, val |-> Undefined], pc |-> "serialize"]

\* serialize(V)
RoundTripSerialize ==
    /\ hook = "pure"
    /\ rt.pc = "serialize"
    /\ rt' = [rt EXCEPT
                !.raw = IF rt.pair = "useStorage"
                        THEN Serialize("JSON.stringify", rt.input)
                        ELSE serializeState(rt.input),
                !.pc = "deserialize"]
    /\ UNCHANGED <<tabs, hook, cfg, keyProp, storage, events, mounted, value, prevKeyRef,
                   listener, rendered, history, histIdx, extWrites, ops, last,
                   second>>

\* deserialize(raw): JSON.parse for useStorage; for useUrlStorageState the
\* state memo applied to a URL whose parameter is raw.
RoundTripDeserialize ==
    /\ hook = "pure"
    /\ rt.pc = "deserialize"
    /\ rt' = [rt EXCEPT
                !.out = IF rt.pair = "useStorage"
                        THEN Deserialize("JSON.parse", rt.raw, 2)
                        ELSE [ok |-> TRUE,
                              val |-> state(cfg,
                                            [path |-> "/",
                                             search |-> searchSet(EmptySearch,
                                                                  kebabize(cfg.key),
                                                                  rt.raw)],
                                            2)],
                !.pc = "done"]
    /\ UNCHANGED <<tabs, hook, cfg, keyProp, storage, events, mounted, value, prevKeyRef,
                   listener, rendered, history, histIdx, extWrites, ops, last,
                   second>>

RoundTripNext == RoundTripSerialize \/ RoundTripDeserialize

RoundTripSpec == RoundTripInit /\ [][RoundTripNext]_vars

\* A useStorage component whose key changes at most once (from the key it
\* is first given), so that every key change is to a key the instance has
\* not used before.
FirstUseNext ==
    \/ Mount
    \/ Render
    \/ ReRender
    \/ Unmount
    \/ \E v \in SettableValues : SetValue(v)
    \/ \E k \in StorageKeys : keyProp = "k1" /\ SetKey(k)
    \/ \E a \in Areas, k \in StorageKeys, nv \in RawStrings \cup {NULL} :
          ExternalWrite(a, k, nv)
    \/ DispatchStorageEvent

FirstUseSpec == StorageInit /\ [][FirstUseNext]_vars

\* Two tabs, both mounted and settled on the same entry: each holds the
\* value its mount read (or the default its mount wrote).
TabsInit ==
    /\ hook = "tabs"
    /\ cfg \in {c \in StorageConfigs : c.live /\ c.area = "local"}
    /\ keyProp = "k1"
    /\ history = << [path |-> "/", search |-> EmptySearch] >>
    /\ InitCommon
    /\ second = NoSecond
    /\ rt = NoRoundTrip
    /\ LET v0 == cfg.dflt.val
       IN  /\ storage = setItem(EmptyStorage, "local", "k1",
                                Serialize(cfg.serialize, v0))
           /\ tabs = [NoTabs EXCEPT !.value = <<v0, v0>>, !.rendered = <<v0, v0>>]

TabsNext ==
    \/ \E t \in Tabs, v \in TabSettableValues : TabSetValue(t, v)
    \/ \E t \in Tabs : TabRender(t)
    \/ \E t \in Tabs : TabDispatch(t)

TabsSpec == TabsInit /\ [][TabsNext]_vars

\* React renders a component whose state changed, and a window dispatches
\* every notification queued to it.
TabsFairSpec ==
    /\ TabsSpec
    /\ \A t \in Tabs : WF_vars(TabRender(t)) /\ WF_vars(TabDispatch(t))

\* Both hooks: a component using either of them.
HooksNext ==
    \/ Mount
    \/ Render
    \/ ReRender
    \/ Unmount
    \/ \E v \in SettableValues : SetValue(v)
    \/ \E k \in StorageKeys : SetKey(k)
    \/ \E a \in Areas, k \in StorageKeys, nv \in RawStrings \cup {NULL} :
          ExternalWrite(a, k, nv)
    \/ DispatchStorageEvent
    \/ \E v \in UrlSettableValues : UpdateState(v)
    \/ \E f \in Updaters : UpdateStateWith(f)
    \/ \E loc \in LinkTargets : LinkNavigate(loc)
    \/ Back

HooksSpec == (StorageInit \/ UrlInit) /\ [][HooksNext]_vars

\* A component with two useUrlStorageState calls (keys "key" and
\* "userSession") about to mount at "/"; storage may hold an entry for either
\* and the URL may carry either parameter.
DuoDefaults == {Str("light"), Obj(TextD, 1)}

DuoInit ==
    /\ hook = "url"
    /\ cfg \in {c \in UrlConfigs : c.area = "local" /\ c.prefix = ""
                                   /\ c.dflt.val \in {Str("default"), Str("1")}}
    /\ keyProp = ""
    /\ \E d \in DuoDefaults :
          second = [NoSecond EXCEPT
                      !.on = TRUE,
                      !.cfg = [cfg EXCEPT !.key = "userSession",
                                          !.dflt = [producer |-> FALSE, val |-> d]]]
    /\ \E raw1 \in {NULL, "fromStorage"}, raw2 \in {NULL, TextA} :
          storage = setItem(setItem(EmptyStorage, "local",
                                    storageKey("", "/", "key"), raw1),
                            "local", storageKey("", "/", "userSession"), raw2)
    /\ \E kv1 \in {NULL, "fromUrl"}, kv2 \in {NULL, "1"} :
          history = << [path |-> "/",
                        search |-> [EmptySearch EXCEPT
                                      !["key"] = kv1,
                                      !["user-session"] = kv2,
                                      !["existing"] = "untouched"]] >>
    /\ InitCommon
    /\ tabs = NoTabs
    /\ rt = NoRoundTrip

DuoNext ==
    \/ DuoMount
    \/ DuoRender
    \/ \E i \in {1, 2}, v \in DuoSettableValues : DuoUpdateState(i, v)

DuoSpec == DuoInit /\ [][DuoNext]_vars

TypeOK ==
    /\ hook \in {"storage", "url", "pure", "tabs"}
    /\ mounted \in BOOLEAN
    /\ histIdx \in 1..Len(history)
    /\ Len(history) <= IF second.on THEN MaxDuoHistory ELSE MaxHistory
    /\ Len(events) <= MaxEvents

----------------------------------------------------------------------------
(* Properties of useStorage, checked under StorageSpec *)

\* The stored form of the component's value / the entry at its key.
Persisted == getItem(storage, CurProps.area, CurProps.key)
SerializedValue == Serialize(CurProps.serialize, value)
IsDefault(x) == DeepEqual(x, CurProps.dflt.val)

\* The last step was a storage notification handled while mounted with live.
LiveEvent == /\ hook = "storage" /\ mounted /\ cfg.live
             /\ last.op = "storageEvent"
\* ... and storageChanged went past its early return.
AcceptedEvent == LiveEvent /\ last.accepted

\* A settle point: the effects of a render (mount, a setValue that changed
\* the value, a key change) or a storage-event reaction have run.
SettlePoint ==
    /\ hook = "storage" /\ mounted /\ Settled
    /\ \/ last.op \in {"mount", "setKey"}
       \/ last.op = "setValue" /\ ~ObjectIs(last.arg, last.pre.value)
       \/ AcceptedEvent

\* C1 (as claimed): at every settle point of a mounted useStorage instance,
\* storage.getItem(key) equals serialize(value).
C1_PersistedEqualsSerialized == SettlePoint => Persisted = SerializedValue

\* What the claims expect of a first load from raw: deserialize(raw) when
\* it exists, is not force-initialised and deserializes; else the default.
Deserializes(raw) ==
    /\ ~forceInit(CurProps, raw)
    /\ Deserialize(CurProps.deserialize, raw, 0).ok
Deserialized(raw) == Deserialize(CurProps.deserialize, raw, 0).val
JustMounted == hook = "storage" /\ mounted /\ last.op = "mount"

\* C2 (as claimed): the initial value is deserialize(raw) exactly when a raw
\* string exists at key, forceInit(raw) is false and deserialize(raw)
\* succeeds, and the resolved default in every other case.
C2_InitialValueAsClaimed ==
    JustMounted =>
        IF last.pre.raw # NULL /\ Deserializes(last.pre.raw)
        THEN DeepEqual(value, Deserialized(last.pre.raw))
        ELSE IsDefault(value)

\* C2 (amended): the initial value is deserialize(raw) exactly when a
\* non-empty raw string exists at key, forceInit(raw) is false and
\* deserialize(raw) succeeds, and the resolved default in every other case
\* (an empty raw string counts as no entry).
C2_InitialValue ==
    JustMounted =>
        IF Truthy(last.pre.raw) /\ Deserializes(last.pre.raw)
        THEN DeepEqual(value, Deserialized(last.pre.raw))
        ELSE IsDefault(value)

C2_Witness ==
    /\ JustMounted
    /\ Truthy(last.pre.raw) /\ Deserializes(last.pre.raw)
    /\ ~IsDefault(value)

\* The raw string is one deserialize throws on.
Corrupt(raw) ==
    /\ Truthy(raw)
    /\ ~forceInit(CurProps, raw)
    /\ ~Deserialize(CurProps.deserialize, raw, 0).ok

\* C3 (as claimed): when deserialize throws on the raw string, at first load
\* or on a live-sync event, the value becomes the default and, once the
\* reaction settles, storage holds serialize(default) at key.
C3_CorruptEntryReplacedByDefault ==
    (/\ hook = "storage" /\ mounted /\ Settled
     /\ \/ last.op = "mount" /\ Corrupt(last.pre.raw)
        \/ AcceptedEvent /\ Corrupt(last.ev.newValue))
    => /\ IsDefault(value)
       /\ Persisted = Serialize(CurProps.serialize, CurProps.dflt.val)

\* C4: after the key of a mounted instance changes from K1 to K2 and the
\* render settles, the value is the one held before, K1 has no entry and K2
\* holds serialize(value), whatever K2 held before.
C4_KeyMigration ==
    (hook = "storage" /\ mounted /\ last.op = "setKey")
    => /\ ObjectIs(value, last.pre.value)
       /\ Settled => /\ getItem(storage, cfg.area, last.pre.key) = NULL
                     /\ getItem(storage, cfg.area, keyProp) = SerializedValue

C4_Witness ==
    /\ hook = "storage" /\ mounted /\ last.op = "setKey" /\ Settled
    /\ last.pre.store[keyProp] # NULL
    /\ last.pre.store[keyProp] # SerializedValue
    /\ last.pre.store[last.pre.key] # NULL

\* The notification is about the instance's current key.
ForCurrentKey == last.ev.key = last.pre.key
\* ... and carries the serialized form of the value the instance holds.
IsEcho == last.ev.newValue = Serialize(CurProps.serialize, last.pre.value)

\* C5: with live, a notification for the current key whose newValue equals
\* serialize(value) makes no storage call and leaves the value as it is.
C5_EchoIgnored ==
    (LiveEvent /\ ForCurrentKey /\ IsEcho)
    => /\ ops = <<>>
       /\ ObjectIs(value, last.pre.value)
       /\ storage[cfg.area] = last.pre.store

C5_Witness ==
    /\ LiveEvent /\ ForCurrentKey /\ IsEcho
    /\ last.ev.area = "local"
    /\ value.t = "obj"

\* The notification comes from the backend the instance is configured with.
FromConfiguredBackend == last.ev.area = cfg.area

\* C6 (as claimed): with live, a notification for the configured backend and
\* current key whose newValue differs from serialize(value) replaces the
\* value with the first-load result for newValue, which is then committed to
\* storage at the same key.
C6_ForeignValueAdopted ==
    (LiveEvent /\ Settled /\ FromConfiguredBackend /\ ForCurrentKey /\ ~IsEcho)
    => /\ IF Truthy(last.ev.newValue) /\ Deserializes(last.ev.newValue)
          THEN DeepEqual(value, Deserialized(last.ev.newValue))
          ELSE IsDefault(value)
       /\ Persisted = SerializedValue

\* C7 (as claimed): with live, a notification for the current key whose
\* newValue is empty or absent resets the value to the default.
C7_ClearedResetsToDefault ==
    (LiveEvent /\ FromConfiguredBackend /\ ForCurrentKey
     /\ ~Truthy(last.ev.newValue))
    => IsDefault(value)

\* C8 (as claimed): with live, a notification is ignored whenever its area
\* is not the configured backend or its key is not the current key, and is
\* not ignored on those grounds when both match.
C8_FilterByConfiguredBackendAndKey ==
    LiveEvent =>
        IF FromConfiguredBackend /\ ForCurrentKey
        THEN ~IsEcho => last.accepted
        ELSE ~last.accepted /\ ops = <<>> /\ ObjectIs(value, last.pre.value)

----------------------------------------------------------------------------
(* Properties of useUrlStorageState, checked under UrlSpec *)

\* The URL parameter of the component's key, the value the hook returns and
\* the entry at the derived storage key.
UrlParam == searchGet(history[histIdx].search, kebabize(cfg.key))
CurrentValue == state(cfg, history[histIdx], Fresh)
DefaultValue == cfg.dflt.val

\* The mount has settled; it started with/without a URL parameter.
UrlMountSettled == hook = "url" /\ mounted /\ Settled /\ last.op = "mount"
NoParamBefore == searchGet(last.pre.search, kebabize(cfg.key)) = NULL

\* The structured reading of a raw string: its JSON value when it parses,
\* else the string itself.
Structured(raw) ==
    IF \E x \in JsonUniverse : JSONstringify(x) = raw
    THEN CHOOSE x \in JsonUniverse : JSONstringify(x) = raw
    ELSE Str(raw)

\* C9 (as claimed): with no storage entry at the derived key and no URL
\* parameter, after the mount settles the current value equals defaultValue,
\* storage holds serialize(defaultValue) at the derived key, the URL carries
\* kebab(K)=serialize(defaultValue) and the history is as long as before.
C9_MountFromDefault ==
    (UrlMountSettled /\ NoParamBefore /\ last.pre.raw = NULL)
    => /\ DeepEqual(CurrentValue, DefaultValue)
       /\ Persisted = serializeState(DefaultValue)
       /\ UrlParam = serializeState(DefaultValue)
       /\ Len(history) = last.pre.histLen

\* C10 (as claimed): with a storage entry at the derived key and no URL
\* parameter, after the mount settles the current value is the stored value,
\* the URL parameter is the stored raw string and the entry is unchanged.
C10_MountFromStorageAsClaimed ==
    (UrlMountSettled /\ NoParamBefore /\ last.pre.raw # NULL)
    => /\ DeepEqual(CurrentValue, Structured(last.pre.raw))
       /\ UrlParam = last.pre.raw
       /\ Persisted = last.pre.raw

\* C10 (amended): with a non-empty storage entry at the derived key and no
\* URL parameter, after the mount settles the current value is the stored
\* value (the JSON value of the raw string when it parses, else the string),
\* the URL parameter is the stored raw string and the entry is unchanged.
C10_MountFromStorage ==
    (UrlMountSettled /\ NoParamBefore /\ Truthy(last.pre.raw))
    => /\ DeepEqual(CurrentValue, Structured(last.pre.raw))
       /\ UrlParam = last.pre.raw
       /\ Persisted = last.pre.raw

C10_Witness ==
    /\ UrlMountSettled /\ NoParamBefore /\ Truthy(last.pre.raw)
    /\ last.pre.raw # serializeState(DefaultValue)
    /\ CurrentValue.t = "obj"

\* A step in which the component renders (its first render included).
RenderStep == mounted' /\ rendered' # rendered

\* C11 (as claimed): whenever the URL contains the parameter kebab(K), the
\* reconciliation never overwrites the parameter from storage and, once
\* settled, storage at the derived key equals the parameter.
C11_UrlParamWins ==
    [][(hook = "url" /\ RenderStep /\ UrlParam # NULL)
       => /\ UrlParam' = UrlParam
          /\ Settled' => Persisted' = UrlParam']_vars

\* The reaction to a plain-value setValue call has settled.
UpdateSettled == hook = "url" /\ mounted /\ Settled /\ last.op = "updateState"

\* The call added exactly one history entry, which is the current one.
OneEntryAdded ==
    /\ histIdx = last.pre.histIdx + 1
    /\ Len(history) = histIdx

\* C12 (as claimed): after setValue(V) settles, the current value is V, the URL
\* parameter and the storage entry are both serializeState(V), and exactly one
\* history entry was added.
C12_SetValueReachesAll ==
    UpdateSettled
    => /\ DeepEqual(CurrentValue, last.arg)
       /\ UrlParam = serializeState(last.arg)
       /\ Persisted = serializeState(last.arg)
       /\ OneEntryAdded

\* The reaction to a setValue call with an updater function has settled.
UpdateWithSettled ==
    hook = "url" /\ mounted /\ Settled /\ last.op = "updateStateWith"

\* C13 (as claimed): setValue(f) invokes f with the storage entry parsed back to
\* structured form, and the URL parameter, the storage entry and the current
\* value become f of that value.
C13_UpdaterGetsStoredValue ==
    UpdateWithSettled
    => LET prev == JSONparse(last.pre.raw, Fresh)
           expected == applyUpdater(last.updater, prev.val, Fresh)
       IN  /\ ~last.threw
           /\ UrlParam = serializeState(expected)
           /\ Persisted = serializeState(expected)
           /\ DeepEqual(CurrentValue, expected)

\* The path of the current location.
CurrentPath == history[histIdx].path

\* The storage entry of the hook's key for path pa, no prefix configured.
PathEntry(pa) == storage[cfg.area][storageKey("", pa, cfg.key)]

\* C14 (as claimed): with no prefix configured the values of the same key at
\* two paths are independent: nothing that happens while the application is at
\* one path changes the storage entry urlStorage_<other path>_<key>, so that
\* returning to the other path finds the value last set there.
C14_PathsIndependent ==
    [][(hook = "url" /\ cfg.prefix = "")
       => \A pa \in Paths :
            (CurrentPath # pa /\ CurrentPath' # pa) => PathEntry(pa)' = PathEntry(pa)]_vars

----------------------------------------------------------------------------
(* Properties of the serialize/deserialize pairs, checked under RoundTripSpec *)

\* C15 (as claimed): reading the serialized form of V back yields V, for
\* useStorage's JSON.stringify/JSON.parse and for useUrlStorageState's
\* serializeState and displayed-value parse, strings whose text is valid JSON
\* included.
C15_RoundTrip ==
    rt.pc = "done" => rt.out.ok /\ DeepEqual(rt.out.val, rt.input)

----------------------------------------------------------------------------
(* Properties of both hooks, checked under HooksSpec *)

\* C16: idempotence.  A re-render from a settled state with no change of
\* key, value, URL or storage leaves the storage entry at the key identical,
\* leaves the URL unchanged and adds no history entry.
C16_ReRenderIdempotent ==
    (mounted /\ last.op = "rerender")
    => /\ Persisted = last.pre.raw
       /\ storage[CurProps.area] = last.pre.store
       /\ history[histIdx].search = last.pre.search
       /\ Len(history) = last.pre.histLen
       /\ histIdx = last.pre.histIdx

\* A re-render has happened while the storage entry differed from the
\* serialized value (a write of another document not adopted).
C16_Witness ==
    /\ hook = "storage" /\ mounted /\ last.op = "rerender"
    /\ Persisted # NULL
    /\ Persisted # SerializedValue

\* The storage calls of the last reaction that remove an entry.
Removals == {i \in 1..Len(ops) : ops[i][1] = "removeItem"}

\* The last trigger was a re-render, a value change or a change of key or
\* location of the mounted component.
ReactionToChange ==
    /\ mounted
    /\ last.op \in {"rerender", "setValue", "setKey", "updateState",
                    "updateStateWith", "navigate", "back"}
KeyTransition == last.pre.key # CurProps.key

----------------------------------------------------------------------------
(* Properties of useUrlStorageState, continued (UrlSpec) *)

\* The reading of a URL parameter the hook displays: the JSON value when the
\* text parses, else the text itself.
ParseOf(raw) ==
    LET parsed == JSONparse(raw, Fresh)
    IN  IF parsed.ok THEN parsed.val ELSE Str(raw)

\* C17 (as claimed, first half): the hook falls back to defaultValue only
\* while the URL parameter is not present; whenever the parameter is present
\* the current value is the parse of the parameter.
C17_DefaultOnlyWithoutParam ==
    (hook = "url" /\ mounted /\ UrlParam # NULL)
    => DeepEqual(CurrentValue, ParseOf(UrlParam))

\* C17 (second half): the fall-back is transient.  From every mount and after
\* every setValue the reconciliation reaches a settled state in which the
\* parameter is present and the current value is its parse.
UrlFairSpec == UrlSpec /\ WF_vars(Render)
ParamSettled ==
    /\ mounted /\ Settled /\ UrlParam # NULL
    /\ DeepEqual(CurrentValue, ParseOf(UrlParam))
C17_FallBackTransient ==
    (hook = "url" /\ mounted) ~> ParamSettled

----------------------------------------------------------------------------
(* Properties of a component with two useUrlStorageState calls (DuoSpec) *)

\* The second call's URL parameter, storage entry and current value.
SecondParam == searchGet(history[histIdx].search, kebabize(second.cfg.key))
SecondPersisted ==
    getItem(storage, second.cfg.area, SecondProps(history[histIdx]).key)
SecondCurrentValue == state(second.cfg, history[histIdx], Fresh)

\* This step is a call of instance i's setter.
SetterCall(i) ==
    /\ second.on /\ mounted
    /\ second'.inHandler
    /\ second'.updated # second.updated \/ ~second.inHandler
    /\ i \in second'.updated
    /\ second.inHandler => i \notin second.updated

\* This step belongs to the reaction to a handler that called only instance
\* i's setter.
ReactionTo(i) ==
    /\ second.on /\ mounted
    /\ last'.op = "updateState"
    /\ second'.updated = {i}

FirstUntouched ==
    /\ UrlParam' = UrlParam
    /\ Persisted' = Persisted
    /\ DeepEqual(CurrentValue', CurrentValue)
SecondUntouched ==
    /\ SecondParam' = SecondParam
    /\ SecondPersisted' = SecondPersisted
    /\ DeepEqual(SecondCurrentValue', SecondCurrentValue)

\* C19 (as claimed): two instances with different keys mounted together are
\* independent: once the mount has settled both URL parameters are present,
\* and a setValue on one instance never changes the other's current value,
\* URL parameter or storage entry, also when both setters are called in the
\* same reaction.
C19_InstancesIndependent ==
    [][second.on
       => /\ (mounted' /\ DuoSettled') => (UrlParam' # NULL /\ SecondParam' # NULL)
          /\ (SetterCall(1) \/ ReactionTo(1)) => SecondUntouched
          /\ (SetterCall(2) \/ ReactionTo(2)) => FirstUntouched]_vars

\* The search parameters of the current URL, and the parameter name of
\* instance i's key.
CurrentSearch == history[histIdx].search
ParamOf(i) == kebabize(IF i = 1 THEN cfg.key ELSE second.cfg.key)

\* C18 (as claimed): every URL write made by the hook (the mount-time replace
\* and the setValue push) changes only the parameter of the writing
\* instance's key; every other parameter of the current URL keeps its value.
C18_OnlyOwnParamWritten ==
    [][(second.on /\ mounted')
       => /\ CurrentSearch'["existing"] = CurrentSearch["existing"]
          /\ \A i \in {1, 2} :
               SetterCall(i)
               => \A n \in ParamNames \ {ParamOf(i)} :
                    CurrentSearch'[n] = CurrentSearch[n]]_vars

----------------------------------------------------------------------------
(* Properties of useStorage, continued (StorageSpec) *)

\* This step is the dispatch of a storage notification.
DispatchStep == Len(events') < Len(events)

\* C21: the storage-notification handler runs against an instance only while
\* the instance is mounted with live: while it is unmounted or live is off, a
\* notification changes neither the in-memory value nor storage, no handler
\* is subscribed, and at no time is more than one handler subscribed.
C21_HandlerOnlyWhileMountedLive ==
    [][hook = "storage"
       => /\ listener'.count <= 1
          /\ listener'.on <=> listener'.count = 1
          /\ listener'.on => (mounted' /\ cfg.live)
          /\ (DispatchStep /\ (~mounted \/ ~cfg.live))
             => /\ value' = value
                /\ storage' = storage
                /\ ops' = <<>>]_vars

\* A notification that a subscribed handler would have acted on (configured
\* key, localStorage, a value other than the one held) has been dispatched
\* to a mounted instance without live.
C21_Witness ==
    /\ hook = "storage" /\ mounted /\ ~cfg.live
    /\ last.op = "storageEvent"
    /\ last.ev.key = last.pre.key
    /\ last.ev.area = "local"
    /\ last.ev.newValue # Serialize(CurProps.serialize, last.pre.value)

----------------------------------------------------------------------------
(* Properties of both hooks, continued (HooksSpec) *)

\* C22: reconciliation causes no render loop.  From every initial combination
\* of URL parameter and storage entry (absent, empty or a value) and after
\* every trigger (mount, setValue, key change, navigation, storage
\* notification) the component is quiescent after at most two further
\* renders, having made at most three storage calls.
C22_NoRenderLoop ==
    /\ last.renders <= 2
    /\ (mounted /\ last.renders = 2) => Settled
    /\ Len(ops) <= 3

\* A reaction that took two renders after its trigger and three storage
\* calls has become quiescent.
C22_Witness ==
    /\ mounted /\ Settled
    /\ last.renders = 2
    /\ Len(ops) = 3

\* The last step changed the key of a mounted useStorage instance (under
\* FirstUseSpec: to a key the instance has not used before).
KeyChanged == hook = "storage" /\ mounted /\ last.op = "setKey"
\* The entry stored at the instance's key before the last step.
EntryBefore == last.pre.store[keyProp]

\* C23 (as claimed): on first use of a key, at mount and when the key changes
\* to a key not used before, the in-memory value becomes the value stored at
\* that key when one exists (forceInit false, deserializes), else the default.
C23_ReadOrDefaultOnFirstUseAsClaimed ==
    /\ JustMounted =>
         IF last.pre.raw # NULL /\ Deserializes(last.pre.raw)
         THEN DeepEqual(value, Deserialized(last.pre.raw))
         ELSE IsDefault(value)
    /\ (KeyChanged /\ Settled) =>
         IF EntryBefore # NULL /\ Deserializes(EntryBefore)
         THEN DeepEqual(value, Deserialized(EntryBefore))
         ELSE IsDefault(value)

\* C23 (amended): read-or-default happens at mount only: the value becomes
\* the one stored at the key when a non-empty entry exists (forceInit false,
\* deserializes), else the default. When the key changes, to a key not used
\* before included, nothing is read: the instance keeps the value it holds
\* and, once settled, the entry at the new key is that value serialized,
\* whatever was stored there.
C23_ReadOrDefaultAtMountOnly ==
    /\ JustMounted =>
         /\ last.pre.key = keyProp
         /\ IF Truthy(last.pre.raw) /\ Deserializes(last.pre.raw)
            THEN DeepEqual(value, Deserialized(last.pre.raw))
            ELSE IsDefault(value)
    /\ KeyChanged =>
         /\ ObjectIs(value, last.pre.value)
         /\ Settled => getItem(storage, cfg.area, keyProp)
                         = Serialize(CurProps.serialize, last.pre.value)

C23_Witness ==
    /\ KeyChanged /\ Settled
    /\ Truthy(EntryBefore) /\ Deserializes(EntryBefore)
    /\ ~DeepEqual(value, Deserialized(EntryBefore))
    /\ ~IsDefault(value)

\* Neither tab has a render or a notification pending.
TabsQuiet == \A t \in Tabs : TabSettled(t) /\ tabs.queue[t] = <<>>
\* Both tabs hold the deserialized storage entry.
TabsAgree ==
    LET raw == getItem(storage, CurProps.area, CurProps.key)
    IN  /\ raw # NULL
        /\ Deserialize(CurProps.deserialize, raw, 0).ok
        /\ \A t \in Tabs : DeepEqual(tabs.value[t], Deserialized(raw))

\* C24 (as claimed): two tabs with live useStorage instances on the same key
\* converge: after finitely many setValue calls in either tab, under every
\* interleaving of writes and notifications, eventually nothing is pending
\* any more and both tabs hold the deserialized storage entry.
C24_TabsConverge == <>[](hook = "tabs" => (TabsQuiet /\ TabsAgree))

\* The last step was a setValue call with an updater function.
UpdaterCalled == hook = "url" /\ mounted /\ last.op = "updateStateWith"

\* C25 (as claimed): from every settled state of useUrlStorageState, also one
\* whose stored value is a plain string that is not JSON text, setValue with
\* an updater function returns without raising and, when it returns, the URL
\* parameter is the serialized result of the updater.
C25_UpdaterCompletes ==
    UpdaterCalled
    => /\ ~last.threw
       /\ last.renders = 0 => UrlParam = serializeState(last.arg)

====
